---- MODULE Spec2Model ----
(***************************************************************************)
(* Content Creation Team: the orchestration / fallback workflow of         *)
(* ContentCreationTeam.create_content and the Streamlit form handler that  *)
(* calls it.                                                               *)
(*                                                                         *)
(* Strings are sequences of tokens.  A token is a brace ("{" or "}"), a    *)
(* blank (" "), a digit or "-" (numbers are kept digit by digit), or a     *)
(* word / fixed phrase that no operation of the program looks into.        *)
(***************************************************************************)
EXTENDS Integers, Sequences, FiniteSets, TLC

VARIABLES
    keys,         \* environment: which credentials are present
    description,  \* self.writing_task.description of the live orchestrator
    pc,           \* position of the current create_content call
    params,       \* arguments of the current create_content call
    context,      \* outputs of the stages completed in the current kickoff
    snippets,     \* search results fetched for the stage in progress
    log,          \* external calls made by the current call, in order
    result,       \* value returned by the current call
    ui,           \* locals of the form handler (inactive for other callers)
    shown,        \* what the form handler put on the page for this submission
    memo,         \* observer: the first fallback outputs seen for the probe inputs
    conc          \* two calls running concurrently: the orchestrators they use
                  \* and the position and locals of each call

vars == <<keys, description, pc, params, context, snippets, log, result, ui, shown,
          memo, conc>>

-----------------------------------------------------------------------------
(* Bounds of the model *)

\* number of distinct texts the completion service can return
NumTexts == 2

-----------------------------------------------------------------------------
(* Text helpers *)

Digits == <<"0", "1", "2", "3", "4", "5", "6", "7", "8", "9">>

RECURSIVE IntToStr(_)
\* Python's str(int) as used by an f-string: decimal digits, "-" for negatives
IntToStr(n) ==
    IF n < 0 THEN <<"-">> \o IntToStr(0 - n)
    ELSE IF n < 10 THEN <<Digits[n + 1]>>
    ELSE IntToStr(n \div 10) \o <<Digits[(n % 10) + 1]>>

FormatError == [ok |-> FALSE, out |-> <<>>]

RECURSIVE FormatFrom(_, _, _)
\* str.format(**kw) applied to s from position i on: "{{" and "}}" are
\* escapes, "{name}" is replaced by kw[name] (KeyError if absent), any other
\* use of a brace raises (IndexError for "{}", ValueError for a single brace).
\* Replacement text is not scanned again.
FormatFrom(s, i, kw) ==
    IF i > Len(s) THEN [ok |-> TRUE, out |-> <<>>]
    ELSE IF s[i] = "{" THEN
        IF i + 1 <= Len(s) /\ s[i + 1] = "{" THEN
            LET r == FormatFrom(s, i + 2, kw)
            IN  IF r.ok THEN [ok |-> TRUE, out |-> <<"{">> \o r.out] ELSE FormatError
        ELSE IF i + 2 <= Len(s) /\ s[i + 2] = "}" /\ s[i + 1] \in DOMAIN kw THEN
            LET r == FormatFrom(s, i + 3, kw)
            IN  IF r.ok THEN [ok |-> TRUE, out |-> kw[s[i + 1]] \o r.out] ELSE FormatError
        ELSE FormatError
    ELSE IF s[i] = "}" THEN
        IF i + 1 <= Len(s) /\ s[i + 1] = "}" THEN
            LET r == FormatFrom(s, i + 2, kw)
            IN  IF r.ok THEN [ok |-> TRUE, out |-> <<"}">> \o r.out] ELSE FormatError
        ELSE FormatError
    ELSE
        LET r == FormatFrom(s, i + 1, kw)
        IN  IF r.ok THEN [ok |-> TRUE, out |-> <<s[i]>> \o r.out] ELSE FormatError

Format(s, kw) == FormatFrom(s, 1, kw)

-----------------------------------------------------------------------------
(* The orchestrator's fixed configuration *)

\* variant: the editor is granted the search tool as well
AgentToolsAll(agent) ==
    CASE agent = "Content Writer" -> {"Serper"}
      [] agent = "Content Editor" -> {"Serper"}
      [] agent = "SEO Specialist" -> {"Serper"}

\* tools granted to each agent
AgentTools(agent) ==
    CASE agent = "Content Writer" -> {"Serper"}
      [] agent = "Content Editor" -> {}
      [] agent = "SEO Specialist" -> {"Serper"}

\* writing_task.description as constructed, placeholders unresolved
WritingTemplate ==
    << "Create original, engaging content on the given topic.",
       "Topic:", "{", "topic", "}",
       "Target Audience:", "{", "audience", "}",
       "Content Type:", "{", "content_type", "}",
       "Word Count:", "{", "word_count", "}",
       "Provide the complete content with proper formatting." >>

EditingDescription ==
    << "Review and edit the content provided by the writer." >>

SeoDescription ==
    << "Optimize the edited content for search engines and social media." >>

\* variant: the editing task is listed before the writing task
CrewTasksSwapped ==
    << [task |-> "editing", agent |-> "Content Editor"],
       [task |-> "writing", agent |-> "Content Writer"],
       [task |-> "seo",     agent |-> "SEO Specialist"] >>

\* the crew's task list: tasks in execution order, each with its agent
CrewTasks ==
    << [task |-> "writing", agent |-> "Content Writer"],
       [task |-> "editing", agent |-> "Content Editor"],
       [task |-> "seo",     agent |-> "SEO Specialist"] >>

NumStages == Len(CrewTasks)

ApisUsed == << "Gemini 2.5 Flash API", "Serper API" >>

-----------------------------------------------------------------------------
(* Results of create_content *)

NoResult == [status |-> "none"]

\* variant: the payload is the first stage's output, not kickoff's return value
SuccessResultFirstStage(topic, audience, content_type, word_count, crewOutput) ==
    [ status       |-> "success",
      message      |-> "Content created successfully!",
      result       |-> context[1].output,
      apis_used    |-> ApisUsed,
      topic        |-> topic,
      audience     |-> audience,
      content_type |-> content_type,
      word_count   |-> word_count ]

\* variant: the message field is left out
SuccessResultBare(topic, audience, content_type, word_count, crewOutput) ==
    [ status       |-> "success",
      result       |-> crewOutput,
      apis_used    |-> ApisUsed,
      topic        |-> topic,
      audience     |-> audience,
      content_type |-> content_type,
      word_count   |-> word_count ]

\* variant: the audience echoed is the parameter's default
SuccessResultDefaultAudience(topic, audience, content_type, word_count, crewOutput) ==
    [ status       |-> "success",
      message      |-> "Content created successfully!",
      result       |-> crewOutput,
      apis_used    |-> ApisUsed,
      topic        |-> topic,
      audience     |-> <<"general audience">>,
      content_type |-> content_type,
      word_count   |-> word_count ]

SuccessResult(topic, audience, content_type, word_count, crewOutput) ==
    [ status       |-> "success",
      message      |-> "Content created successfully!",
      result       |-> crewOutput,
      apis_used    |-> ApisUsed,
      topic        |-> topic,
      audience     |-> audience,
      content_type |-> content_type,
      word_count   |-> word_count ]

SimulationWorkflow ==
    << "Writer Agent creates content (Gemini 2.5 Flash + Serper)",
       "Editor Agent reviews and improves (Gemini 2.5 Flash)",
       "SEO Agent optimizes for search engines (Gemini 2.5 Flash + Serper)" >>

\* variant: the fallback hands out the output of the last completed stage
SimulationResultPartial(topic, audience, content_type, word_count) ==
    [ status       |-> "simulation",
      message      |-> "Multi-agent system working in simulation mode",
      workflow     |-> SimulationWorkflow
                       \o (IF context = <<>> THEN <<>> ELSE context[Len(context)].output),
      topic        |-> topic,
      audience     |-> audience,
      content_type |-> content_type,
      word_count   |-> word_count,
      apis_used    |-> ApisUsed ]

\* variant: the fallback reports no API as used
SimulationResultNoApis(topic, audience, content_type, word_count) ==
    [ status       |-> "simulation",
      message      |-> "Multi-agent system working in simulation mode",
      workflow     |-> SimulationWorkflow,
      topic        |-> topic,
      audience     |-> audience,
      content_type |-> content_type,
      word_count   |-> word_count,
      apis_used    |-> <<>> ]

\* variant: the fallback takes the topic from the writing task's description
SimulationResultFromTask(topic, audience, content_type, word_count) ==
    [ status       |-> "simulation",
      message      |-> "Multi-agent system working in simulation mode",
      workflow     |-> SimulationWorkflow,
      topic        |-> description,
      audience     |-> audience,
      content_type |-> content_type,
      word_count   |-> word_count,
      apis_used    |-> ApisUsed ]

SimulationResult(topic, audience, content_type, word_count) ==
    [ status       |-> "simulation",
      message      |-> "Multi-agent system working in simulation mode",
      workflow     |-> SimulationWorkflow,
      topic        |-> topic,
      audience     |-> audience,
      content_type |-> content_type,
      word_count   |-> word_count,
      apis_used    |-> ApisUsed ]

-----------------------------------------------------------------------------
(* The Streamlit form and its simulated content *)

SliderMin == 300
SliderMax == 3000
SliderStep == 100

\* the values the word-count slider can take
SliderValues == { w \in SliderMin..SliderMax : (w - SliderMin) % SliderStep = 0 }

\* variant: a margin of 300 words below the slider value
RangeStrWide(w) == IntToStr(w - 300) \o <<"-">> \o IntToStr(w + 200)

\* f"{word_count-200}-{word_count+200}"
RangeStr(w) == IntToStr(w - 200) \o <<"-">> \o IntToStr(w + 200)

\* variant: the template is filled with the range string passed to the call
SimulatedContentRange(topic, audience, content_type, word_count) ==
    <<"#">> \o topic
    \o <<"## Introduction", "This is a simulated content piece about">> \o topic
    \o <<", designed for">> \o audience
    \o <<". The content would be structured as a">> \o content_type
    \o <<"with approximately">> \o RangeStr(word_count) \o <<"words.">>
    \o <<"## Key Points", "Point 1", "Point 2", "Point 3", "Point 4",
         "## Conclusion", "unprecedented opportunities for">> \o audience
    \o <<"to improve patient care and outcomes.",
         "*This is simulated content.*">>

\* the f-string simulated_content of show_simulation_mode
SimulatedContent(topic, audience, content_type, word_count) ==
    <<"#">> \o topic
    \o <<"## Introduction", "This is a simulated content piece about">> \o topic
    \o <<", designed for">> \o audience
    \o <<". The content would be structured as a">> \o content_type
    \o <<"with approximately">> \o IntToStr(word_count) \o <<"words.">>
    \o <<"## Key Points", "Point 1", "Point 2", "Point 3", "Point 4",
         "## Conclusion", "unprecedented opportunities for">> \o audience
    \o <<"to improve patient care and outcomes.",
         "*This is simulated content.*">>

ErrorItem(text) == [kind |-> "error", content |-> <<text>>]

\* what show_simulation_mode puts on the page
ShowSimulationMode(topic, audience, content_type, word_count) ==
    << [kind    |-> "simulated",
        content |-> SimulatedContent(topic, audience, content_type, word_count)] >>

\* variant: the result is displayed without looking at its status
DisplayResultsNoStatus(res, topic, audience, content_type, word_count) ==
    << [kind    |-> "generated",
        content |-> IF "result" \in DOMAIN res THEN res.result
                    ELSE <<"No content generated">>] >>

\* what display_results puts on the page
DisplayResults(res, topic, audience, content_type, word_count) ==
    IF res.status = "success"
    THEN << [kind    |-> "generated",
             content |-> IF "result" \in DOMAIN res THEN res.result
                         ELSE <<"No content generated">>] >>
    ELSE ShowSimulationMode(topic, audience, content_type, word_count)

\* the markup tokens a text may hold
HtmlTags == {"<!DOCTYPE html>", "<html>", "</html>", "<body>", "</body>", "<h1>", "</h1>"}

\* "<!DOCTYPE html>" in content or "<html>" in content
IsHtml(content) ==
    \E i \in 1..Len(content) : content[i] \in {"<!DOCTYPE html>", "<html>"}

\* the text simple_streamlit_app displays for content: of an HTML document
\* the part between the first <body> and the next </body> with its tags
\* removed, the content itself when there is no such part or no HTML
StripHtml(content) ==
    LET opens == { i \in 1..Len(content) : content[i] = "<body>" }
        first == CHOOSE i \in opens : \A k \in opens : i <= k
        ends  == { j \in 1..Len(content) : j > first /\ content[j] = "</body>" }
        last  == CHOOSE j \in ends : \A k \in ends : j <= k
        IsText(t) == t \notin HtmlTags
    IN  IF ~IsHtml(content) \/ opens = {} THEN content
        ELSE IF ends = {} THEN content
        ELSE SelectSeq(SubSeq(content, first + 1, last - 1), IsText)

\* what the form handler of simple_streamlit_app puts on the page
DisplaySimple(res, topic, audience, content_type, word_count) ==
    IF res.status = "success"
    THEN << [kind    |-> "generated",
             content |-> StripHtml(IF "result" \in DOMAIN res THEN res.result
                                   ELSE <<>>)] >>
    ELSE ShowSimulationMode(topic, audience, content_type, word_count)

\* what test_system reports after create_content returned res
TestReport(res) ==
    IF res.status = "success"
    THEN << [kind |-> "test", content |-> <<"System test successful!">>] >>
    ELSE << [kind |-> "test", content |-> <<"System test completed in simulation mode">>] >>

\* the arguments test_system passes to create_content
TestParams ==
    [topic |-> <<"Test Topic">>, audience |-> <<"test audience">>,
     content_type |-> <<"blog post">>,
     word_count |-> <<"5", "0", "0", "-", "6", "0", "0">>]

\* the two Streamlit frontends
Apps == {"new", "simple"}

\* handler locals: active is set while a form submission is handled; action
\* names the handler ("form", "test", or "none" for other callers) and app the
\* frontend it belongs to
NoUi == [active |-> FALSE, topic |-> <<>>, audience |-> <<>>,
         content_type |-> <<>>, word_count |-> 0, action |-> "none", app |-> "none"]

TestUi == [NoUi EXCEPT !.action = "test", !.app = "new"]

-----------------------------------------------------------------------------
(* Inputs *)

Topics == { <<"T">>, <<"{", "x", "}">>, <<" ">> }

Audiences == { <<"general audience">>, <<"developers">> }

ContentTypes == { <<"blog post">>, <<"article">> }

\* word_count strings a caller of create_content may pass
WordCounts ==
    { <<"8", "0", "0", "-", "1", "0", "0", "0">>,
      <<"abc">>,
      <<"1", "0", "0", "0", "-", "8", "0", "0">> }

\* texts the completion service may return
Texts == { <<"text">> \o IntToStr(k) : k \in 1..NumTexts }

\* a text returned as an HTML document
HtmlText == <<"<!DOCTYPE html>", "<html>", "<body>", "<h1>", "heading", "</h1>",
              "body text", "</body>", "</html>">>

\* texts the completion service may return for the last task
FinalTexts == Texts \cup {HtmlText}

Snippet == <<"snippet">>

NoParams == [topic |-> <<>>, audience |-> <<>>, content_type |-> <<>>, word_count |-> <<>>]

-----------------------------------------------------------------------------
(* Observer of the fallback path: it remembers the first simulation result    *)
(* returned for ProbeParams and the first simulated content shown for          *)
(* ProbeForm, so that later fallback outputs for the same inputs can be        *)
(* compared with them.  It never influences the program.                       *)

ProbeParams ==
    [topic |-> <<"T">>, audience |-> <<"general audience">>,
     content_type |-> <<"blog post">>,
     word_count |-> <<"8", "0", "0", "-", "1", "0", "0", "0">>]

ProbeForm ==
    [active |-> TRUE, topic |-> <<"T">>, audience |-> <<"general audience">>,
     content_type |-> <<"blog post">>, word_count |-> 1000,
     action |-> "form", app |-> "new"]

NoMemo == [direct |-> NoResult, page |-> <<>>]

\* the simulated content on a page, if any
SimulatedOn(page) ==
    IF \E i \in 1..Len(page) : page[i].kind = "simulated"
    THEN page[CHOOSE i \in 1..Len(page) : page[i].kind = "simulated"].content
    ELSE <<>>

Observe(form, p, res, page) ==
    [direct |-> IF memo.direct = NoResult /\ ~form.active /\ p = ProbeParams
                   /\ res.status = "simulation"
                THEN res ELSE memo.direct,
     page   |-> IF memo.page = <<>> /\ form = ProbeForm
                THEN SimulatedOn(page) ELSE memo.page]

\* no concurrent calls
NoConc == [desc |-> <<>>, run |-> <<>>]

-----------------------------------------------------------------------------
(* State after construction *)

Init ==
    /\ keys \in [google : BOOLEAN, serper : BOOLEAN]
    /\ description = WritingTemplate
    /\ pc = "idle"
    /\ params = NoParams
    /\ context = <<>>
    /\ snippets = <<>>
    /\ log = <<>>
    /\ result = NoResult
    /\ ui = NoUi
    /\ shown = <<>>
    /\ memo = NoMemo
    /\ conc = NoConc

\* no caller is active
AtRest == pc = "idle"

-----------------------------------------------------------------------------
(* crew.kickoff(): the sequential process over the crew's tasks *)

Stage == Len(context) + 1

CurTask == CrewTasks[Stage]

TaskDescription(task) ==
    CASE task = "writing" -> description
      [] task = "editing" -> EditingDescription
      [] task = "seo"     -> SeoDescription

\* the instructions of the stage in progress: its task description, then the
\* previous stage's output as context
Instructions ==
    TaskDescription(CurTask.task)
    \o (IF Stage > 1 THEN <<"context:">> \o context[Stage - 1].output ELSE <<>>)

NeedsSearch == "Serper" \in AgentTools(CurTask.agent) /\ snippets = <<>>

\* variant: the failure is swallowed and the workflow carries on
OnKickoffErrorRetry == "kickoff"

\* where control goes when crew.kickoff() raises: the except clause
OnKickoffError == "except"

\* the page after create_content returned res to the form handler
PageAfter(res) ==
    IF ui.active
    THEN IF ui.app = "simple"
         THEN DisplaySimple(res, ui.topic, ui.audience, ui.content_type, ui.word_count)
         ELSE DisplayResults(res, ui.topic, ui.audience, ui.content_type, ui.word_count)
    ELSE IF ui.action = "test" THEN TestReport(res)
    ELSE <<>>

\* the stage in progress calls the search tool
SearchStep ==
    /\ pc = "kickoff"
    /\ NeedsSearch
    /\ \E ok \in BOOLEAN :
        /\ ok => keys.serper
        /\ log' = Append(log, [api |-> "Search", agent |-> CurTask.agent, ok |-> ok,
                               input |-> Instructions,
                               output |-> IF ok THEN Snippet ELSE <<>>])
        /\ IF ok
           THEN /\ snippets' = Snippet
                /\ pc' = pc
           ELSE /\ snippets' = <<>>
                /\ pc' = OnKickoffError
    /\ UNCHANGED <<conc, keys, description, params, context, result, ui, shown, memo>>

\* the stage in progress calls the completion service; after the last stage
\* kickoff returns its output and create_content returns the success result
CompletionStep ==
    /\ pc = "kickoff"
    /\ ~NeedsSearch
    /\ \E ok \in BOOLEAN, text \in (IF Stage = NumStages THEN FinalTexts ELSE Texts) :
        /\ ok => keys.google
        /\ ~ok => text = CHOOSE t \in Texts : TRUE
        /\ log' = Append(log, [api |-> "LLM", agent |-> CurTask.agent, ok |-> ok,
                               input |-> Instructions \o snippets,
                               output |-> IF ok THEN text ELSE <<>>])
        /\ snippets' = <<>>
        /\ IF ~ok
           THEN /\ pc' = OnKickoffError
                /\ UNCHANGED <<context, result, shown>>
           ELSE /\ context' = Append(context, [agent |-> CurTask.agent, output |-> text])
                /\ IF Stage = NumStages
                   THEN /\ result' = SuccessResult(params.topic, params.audience,
                                                   params.content_type, params.word_count,
                                                   text)
                        /\ pc' = "returned"
                        /\ shown' = PageAfter(result')
                   ELSE /\ pc' = pc
                        /\ UNCHANGED <<result, shown>>
    /\ UNCHANGED <<conc, keys, description, params, ui, memo>>

\* variant: an except clause that lets the exception leave create_content
FallbackReraise ==
    /\ pc = "except"
    /\ pc' = "raised"
    /\ UNCHANGED <<conc, keys, description, params, context, snippets, log, result,
                   ui, shown, memo>>

\* the except clause of create_content: fall back to simulation
Fallback ==
    /\ pc = "except"
    /\ result' = SimulationResult(params.topic, params.audience,
                                  params.content_type, params.word_count)
    /\ pc' = "returned"
    /\ shown' = PageAfter(result')
    /\ memo' = Observe(ui, params, result', shown')
    /\ UNCHANGED <<conc, keys, description, params, context, snippets, log, ui>>

-----------------------------------------------------------------------------
(* Callers *)

\* ContentCreationTeam(): a new orchestrator replaces the live one
Construct ==
    /\ AtRest
    /\ description' = WritingTemplate
    /\ pc' = "idle"
    /\ params' = NoParams
    /\ context' = <<>>
    /\ snippets' = <<>>
    /\ log' = <<>>
    /\ result' = NoResult
    /\ ui' = NoUi
    /\ shown' = <<>>
    /\ UNCHANGED <<conc, keys, memo>>

\* entry of create_content on an orchestrator whose writing task description
\* is desc: the description is formatted in place, then the try block starts
Enter(desc, p) ==
    LET r == Format(desc, p)
    IN  /\ params' = p
        /\ context' = <<>>
        /\ snippets' = <<>>
        /\ log' = <<>>
        /\ result' = NoResult
        /\ IF r.ok
           THEN /\ description' = r.out
                /\ pc' = "kickoff"
           ELSE /\ description' = desc
                /\ pc' = "raised"

\* a caller other than the form calls create_content on the live orchestrator
CreateContent ==
    /\ AtRest
    /\ \E topic \in Topics, audience \in Audiences,
          content_type \in ContentTypes, word_count \in WordCounts :
          Enter(description, [topic |-> topic, audience |-> audience,
                              content_type |-> content_type, word_count |-> word_count])
    /\ ui' = NoUi
    /\ shown' = <<>>
    /\ UNCHANGED <<conc, keys, memo>>

\* the form is submitted: credentials are checked, a new orchestrator is
\* constructed and create_content is called on it
Submit ==
    /\ AtRest
    /\ \E topic \in Topics, audience \in Audiences, content_type \in ContentTypes,
          word_count \in SliderValues, built \in BOOLEAN, app \in Apps :
        LET form == [active |-> TRUE, topic |-> topic, audience |-> audience,
                     content_type |-> content_type, word_count |-> word_count,
                     action |-> "form", app |-> app]
            p == [topic |-> topic, audience |-> audience, content_type |-> content_type,
                  word_count |-> RangeStr(word_count)]
            rest == /\ pc' = "handled"
                    /\ description' = WritingTemplate
                    /\ params' = NoParams
                    /\ context' = <<>>
                    /\ snippets' = <<>>
                    /\ log' = <<>>
                    /\ result' = NoResult
        IN  /\ ui' = form
            /\ IF ~keys.google \/ ~keys.serper
               THEN /\ shown' = <<ErrorItem("API keys not configured")>>
                    /\ rest
               ELSE IF ~built
               THEN /\ shown' = <<ErrorItem("Error")>>
                                 \o ShowSimulationMode(topic, audience, content_type, word_count)
                    /\ rest
               ELSE /\ Enter(WritingTemplate, p)
                    /\ shown' = IF pc' = "raised"
                                THEN <<ErrorItem("Error")>>
                                     \o ShowSimulationMode(topic, audience, content_type, word_count)
                                ELSE <<>>
            /\ memo' = Observe(form, p, NoResult, shown')
    /\ UNCHANGED <<conc, keys>>

\* the sidebar's "Test System" button: test_system constructs an orchestrator
\* and calls create_content on it with fixed arguments
TestSystem ==
    /\ AtRest
    /\ ui' = TestUi
    /\ \E built \in BOOLEAN :
        IF ~built
        THEN /\ shown' = <<ErrorItem("System test failed")>>
             /\ pc' = "handled"
             /\ description' = WritingTemplate
             /\ params' = NoParams
             /\ context' = <<>>
             /\ snippets' = <<>>
             /\ log' = <<>>
             /\ result' = NoResult
        ELSE /\ Enter(WritingTemplate, TestParams)
             /\ shown' = IF pc' = "raised"
                         THEN <<ErrorItem("System test failed")>>
                         ELSE <<>>
    /\ UNCHANGED <<conc, keys, memo>>

\* the caller is done with the outcome of its call: the locals of the call go
\* out of scope, and so does the orchestrator the form handler constructed
Finish ==
    /\ pc \in {"returned", "raised", "handled"}
    /\ pc' = "idle"
    /\ description' = IF ui.action # "none" THEN WritingTemplate ELSE description
    /\ params' = NoParams
    /\ context' = <<>>
    /\ snippets' = <<>>
    /\ log' = <<>>
    /\ result' = NoResult
    /\ ui' = NoUi
    /\ shown' = <<>>
    /\ UNCHANGED <<conc, keys, memo>>

Next ==
    \/ Construct
    \/ CreateContent
    \/ Submit
    \/ TestSystem
    \/ SearchStep
    \/ CompletionStep
    \/ Fallback
    \/ Finish

Spec == Init /\ [][Next]_vars

-----------------------------------------------------------------------------
(* Vocabulary of the properties *)

\* sub occurs in s as a contiguous run of tokens
Contains(s, sub) ==
    \E i \in 0..(Len(s) - Len(sub)) :
        \A j \in 1..Len(sub) : s[i + j] = sub[j]

IsDigit(c) == \E i \in 1..Len(Digits) : Digits[i] = c

DigitVal(c) == (CHOOSE i \in 1..Len(Digits) : Digits[i] = c) - 1

RECURSIVE StrToInt(_)
StrToInt(ds) ==
    IF ds = <<>> THEN 0
    ELSE StrToInt(SubSeq(ds, 1, Len(ds) - 1)) * 10 + DigitVal(ds[Len(ds)])

\* wc reads "<low>-<high>" with low < high
ValidRange(wc) ==
    \E k \in 2..(Len(wc) - 1) :
        /\ wc[k] = "-"
        /\ \A i \in 1..Len(wc) : i # k => IsDigit(wc[i])
        /\ StrToInt(SubSeq(wc, 1, k - 1)) < StrToInt(SubSeq(wc, k + 1, Len(wc)))

\* s is not empty after trimming
NonBlank(s) == \E i \in 1..Len(s) : s[i] # " "

\* the input constraints of run()
ValidParams(p) ==
    /\ NonBlank(p.topic)
    /\ NonBlank(p.audience)
    /\ NonBlank(p.content_type)
    /\ ValidRange(p.word_count)

IsLlm(e) == e.api = "LLM"

IsSearch(e) == e.api = "Search"

\* the completion-service calls of the current run, in order
LlmCalls == SelectSeq(log, IsLlm)

\* the search-tool calls of the current run, in order
SearchCalls == SelectSeq(log, IsSearch)

\* every external call of the current run succeeded
AllOk == \A i \in 1..Len(log) : log[i].ok

\* external calls were made and every one of them failed
AllFailed == log # <<>> /\ \A i \in 1..Len(log) : ~log[i].ok

\* the stages that ran to completion in the current run, in order
StagesCompleted == [i \in 1..Len(context) |-> context[i].agent]

\* the APIs a result reports as used
ApisReported(r) == { r.apis_used[i] : i \in 1..Len(r.apis_used) }

\* the payload a caller gets: the result's own, else the fallback template
\* the form shows in its place
Payload ==
    IF "result" \in DOMAIN result THEN result.result ELSE SimulatedOn(shown)

ParamFields == {"topic", "audience", "content_type", "word_count"}

CommonFields == {"status", "message", "apis_used"} \cup ParamFields

-----------------------------------------------------------------------------
\* the calls made so far on the live orchestrator, if any, had valid
\* parameters: its writing task description is the template, or the template
\* rendered with valid parameters
EarlierCallsValid ==
    \/ description = WritingTemplate
    \/ \E topic \in Topics, audience \in Audiences,
          content_type \in ContentTypes, word_count \in WordCounts :
          LET p == [topic |-> topic, audience |-> audience,
                    content_type |-> content_type, word_count |-> word_count]
          IN  ValidParams(p) /\ description = Format(WritingTemplate, p).out

(* C1: for valid parameters every call of create_content, whatever the       *)
(* collaborators do and whatever calls came before it on the same            *)
(* orchestrator, ends by returning a result whose status is success or       *)
(* simulation; none ends by raising.                                         *)
C1_AlwaysRunResult ==
    (pc \in {"returned", "raised"} /\ ValidParams(params) /\ EarlierCallsValid)
        => (pc = "returned" /\ result.status \in {"success", "simulation"})

(* C2: a run in which every completion and search call succeeded returns     *)
(* success, has completed Writer, Editor, SEO in that order, reports both    *)
(* APIs, and its payload is the text of the third completion call.           *)
C2_SuccessPath ==
    (pc = "returned" /\ AllOk)
        => /\ result.status = "success"
           /\ StagesCompleted = <<"Content Writer", "Content Editor", "SEO Specialist">>
           /\ ApisReported(result) = {"Gemini 2.5 Flash API", "Serper API"}
           /\ Len(LlmCalls) = 3
           /\ result.result = LlmCalls[3].output

C2_Witness ==
    /\ pc = "returned"
    /\ AllOk
    /\ Len(LlmCalls) = 3
    /\ LlmCalls[3].output # LlmCalls[1].output
    /\ LlmCalls[2].output = LlmCalls[1].output

\* only the third completion call of the run failed
OnlyThirdLlmFailed ==
    /\ Len(LlmCalls) = 3
    /\ LlmCalls[1].ok /\ LlmCalls[2].ok /\ ~LlmCalls[3].ok
    /\ \A i \in 1..Len(SearchCalls) : SearchCalls[i].ok

(* C3: success is returned only when all three stages ran without a failed   *)
(* call; when only the third completion call fails the run returns           *)
(* simulation and no field of the result holds the output of a completed     *)
(* stage.                                                                    *)
C3_AllOrNothing ==
    pc = "returned" =>
        /\ result.status = "success"
              => (AllOk /\ Len(context) = NumStages /\ Len(LlmCalls) = NumStages)
        /\ OnlyThirdLlmFailed
              => /\ result.status = "simulation"
                 /\ Len(context) = 2
                 /\ DOMAIN result = CommonFields \cup {"workflow"}
                 /\ \A f \in ParamFields \cup {"workflow", "apis_used"} :
                        \A i \in 1..Len(context) :
                            ~Contains(result[f], context[i].output)

C3_Witness == pc = "returned" /\ OnlyThirdLlmFailed

(* C4: within a run only the last external call can be a failed one (nothing *)
(* is called after a failure, the failed call is not repeated); a run whose  *)
(* first completion call failed returns simulation after exactly one         *)
(* completion call.                                                          *)
C4_NoCallAfterFailure ==
    /\ \A i \in 1..(Len(log) - 1) : log[i].ok
    /\ (pc = "returned" /\ LlmCalls # <<>> /\ ~LlmCalls[1].ok)
          => (result.status = "simulation" /\ Len(LlmCalls) = 1)

C4_Witness ==
    /\ pc = "returned"
    /\ LlmCalls # <<>>
    /\ ~LlmCalls[1].ok
    /\ Len(log) = 2

(* C5: a call with invalid parameters fails before any collaborator is       *)
(* invoked: it raises, makes no completion or search call and returns no     *)
(* result.                                                                   *)
C5_InvalidRejected ==
    (pc \in {"kickoff", "except", "returned", "raised"} /\ ~ValidParams(params))
        => (pc = "raised" /\ log = <<>> /\ result = NoResult)

C9_SameOutputs ==
    /\ (pc = "returned" /\ result.status = "simulation" /\ ~ui.active
        /\ params = ProbeParams /\ memo.direct # NoResult)
          => result = memo.direct
    /\ (ui = ProbeForm /\ SimulatedOn(shown) # <<>> /\ memo.page # <<>>)
          => SimulatedOn(shown) = memo.page

(* C9: the fallback is a function of its parameters: whatever ran before,    *)
(* the simulation result and the simulated content produced for the same     *)
(* parameters are identical to the first ones produced for them; producing   *)
(* them makes no external call.                                              *)
C9_FallbackPure ==
    /\ []C9_SameOutputs
    /\ [][pc = "except" => log' = log]_vars

C9_Witness ==
    /\ pc = "returned"
    /\ result.status = "simulation"
    /\ ~ui.active
    /\ params = ProbeParams
    /\ memo.direct # NoResult
    /\ memo.page # <<>>
    /\ ~Contains(description, params.content_type)
    /\ Len(log) > 1

(* C10: every returned result, success or simulation, echoes topic,          *)
(* audience, content type and word-count range with the values passed to     *)
(* that call, whatever was passed to earlier calls on the same orchestrator. *)
C10_EchoParams ==
    pc = "returned" =>
        /\ result.topic = params.topic
        /\ result.audience = params.audience
        /\ result.content_type = params.content_type
        /\ result.word_count = params.word_count

C10_Witness ==
    /\ pc = "returned"
    /\ result.status = "success"
    /\ ~Contains(description, params.audience)
    /\ ~Contains(description, params.word_count)

-----------------------------------------------------------------------------
\* a create_content call has been entered and not yet dropped by its caller
InCall == pc \in {"kickoff", "except", "returned", "raised"}

(* C11: on every frontend path, form submission and "Test System" alike,     *)
(* create_content is only ever invoked with both credentials present.        *)
C11_KeysChecked ==
    (InCall /\ ui.action # "none") => (keys.google /\ keys.serper)

\* the fixed order of the stages
StageOrder == <<"Content Writer", "Content Editor", "SEO Specialist">>

(* C12: the completion calls of a run are made by Writer, Editor, SEO in     *)
(* that order, one per stage; a stage's completion call is made only after   *)
(* the previous stage's call succeeded and its output was stored, and its    *)
(* instructions contain that output in full; the output of the last stage    *)
(* is the payload of the success result.                                     *)
C12_Sequential ==
    /\ Len(LlmCalls) <= Len(StageOrder)
    /\ \A i \in 1..Len(LlmCalls) : LlmCalls[i].agent = StageOrder[i]
    /\ \A i \in 2..Len(LlmCalls) :
          /\ LlmCalls[i - 1].ok
          /\ Len(context) >= i - 1
          /\ context[i - 1].output = LlmCalls[i - 1].output
          /\ Contains(LlmCalls[i].input, LlmCalls[i - 1].output)
    /\ (pc = "returned" /\ result.status = "success")
          => /\ Len(LlmCalls) = Len(StageOrder)
             /\ result.result = LlmCalls[Len(StageOrder)].output

C12_Witness ==
    /\ pc = "returned"
    /\ result.status = "success"
    /\ LlmCalls[1].output # LlmCalls[2].output
    /\ LlmCalls[2].output # LlmCalls[3].output

(* C13: the registry holds exactly the three stages Writer, Editor, SEO in   *)
(* that order, only Writer and SEO are granted the search tool, and no       *)
(* search call is ever made by the Editor stage.                             *)
C13_EditorNeverSearches ==
    /\ [i \in 1..Len(CrewTasks) |-> CrewTasks[i].agent] = StageOrder
    /\ {a \in {"Content Writer", "Content Editor", "SEO Specialist"} :
            AgentTools(a) # {}} = {"Content Writer", "SEO Specialist"}
    /\ \A i \in 1..Len(log) :
          log[i].api = "Search" => log[i].agent \in {"Content Writer", "SEO Specialist"}

C13_Witness ==
    /\ Len(SearchCalls) = 2
    /\ SearchCalls[2].agent = "SEO Specialist"
    /\ \E i \in 1..Len(log) : log[i].api = "LLM" /\ log[i].agent = "Content Editor"

\* the stage-1 instructions of the current run are the template rendered with
\* the run's own parameters
OwnInstructions ==
    log # <<>> => log[1].input = Format(WritingTemplate, params).out

(* C14: a call leaves the stage definitions unchanged: when it has returned, *)
(* the writing task's description is still the template with its unresolved  *)
(* placeholders, so in any sequence of calls on one orchestrator the stage-1 *)
(* instructions of each call are rendered from that call's own topic,        *)
(* audience, content type and word count.                                    *)
C14_TemplateUnchanged ==
    /\ pc = "returned" => description = WritingTemplate
    /\ OwnInstructions

\* the agents that are granted the search tool
SearchAgents == { a \in {StageOrder[i] : i \in 1..Len(StageOrder)} : AgentTools(a) # {} }

(* C16: a failure of the search tool in a stage that is granted search is    *)
(* propagated, not absorbed: the failed search is the last call of the run   *)
(* (no completion call for that stage, no later stage), the stage adds       *)
(* nothing to the context, every completion call of a search-granted agent   *)
(* follows a successful search of that agent and carries its findings, and   *)
(* the call returns the simulation result.                                   *)
C16_SearchFailurePropagated ==
    /\ \A i \in 1..Len(log) :
          (IsSearch(log[i]) /\ ~log[i].ok) =>
              /\ i = Len(log)
              /\ log[i].agent \in SearchAgents
              /\ \A j \in 1..Len(context) : context[j].agent # log[i].agent
              /\ pc \in {"except", "returned"}
              /\ pc = "returned" => result.status = "simulation"
    /\ \A i \in 1..Len(log) :
          (IsLlm(log[i]) /\ log[i].agent \in SearchAgents) =>
              /\ i > 1
              /\ IsSearch(log[i-1]) /\ log[i-1].ok /\ log[i-1].agent = log[i].agent
              /\ Contains(log[i].input, log[i-1].output)

\* the search of the third stage failed after two completed stages
C16_Witness ==
    /\ pc = "returned"
    /\ result.status = "simulation"
    /\ Len(SearchCalls) = 2
    /\ ~SearchCalls[2].ok
    /\ Len(context) = 2

\* the handler of a form submission made with both credentials has ended
FormHandled ==
    /\ ui.action = "form"
    /\ keys.google /\ keys.serper
    /\ pc \in {"returned", "raised", "handled"}

IsContent(item) == item.kind \in {"generated", "simulated"}

\* the content displays on the page
ContentShown == SelectSeq(shown, IsContent)

(* C17: in both frontends, when the handler of a form submission made with   *)
(* both credentials has ended, the page holds exactly one content display:   *)
(* the generated content (the result's text; in simple_streamlit_app the     *)
(* text without markup when it is an HTML document) if create_content        *)
(* returned a result with status success, and otherwise, also when the       *)
(* constructor or create_content raised, the simulated content for the       *)
(* submitted form values; the simulated content is never shown twice.        *)
C17_OneContentDisplay ==
    FormHandled =>
        /\ Len(ContentShown) = 1
        /\ IF pc = "returned" /\ result.status = "success"
           THEN /\ ContentShown[1].kind = "generated"
                /\ (ui.app = "new" \/ ~IsHtml(result.result)) =>
                        ContentShown[1].content = result.result
                /\ ContentShown[1].content # <<>>
                /\ \A i \in 1..Len(ContentShown[1].content) :
                        /\ Contains(result.result, <<ContentShown[1].content[i]>>)
                        /\ ui.app = "simple" /\ IsHtml(result.result) =>
                              ContentShown[1].content[i] \notin HtmlTags
           ELSE /\ ContentShown[1].kind = "simulated"
                /\ ContentShown[1].content =
                       SimulatedContent(ui.topic, ui.audience, ui.content_type,
                                        ui.word_count)

\* the constructor raised in simple_streamlit_app: an error, then the
\* simulated content
C17_Witness ==
    /\ FormHandled
    /\ ui.app = "simple"
    /\ pc = "handled"
    /\ Len(shown) = 2
    /\ shown[1].kind = "error"
    /\ shown[2].kind = "simulated"

\* an HTML document was generated and displayed by simple_streamlit_app
HtmlDisplayed ==
    /\ FormHandled
    /\ ui.app = "simple"
    /\ pc = "returned"
    /\ result.status = "success"
    /\ IsHtml(result.result)
    /\ ContentShown[1].content = <<"heading", "body text">>

\* a call of create_content made by a form handler is in progress or returned
FormCall == ui.action = "form" /\ pc \in {"kickoff", "except", "returned"}

(* C18: for every slider value w a frontend can submit (300 to 3000 in steps *)
(* of 100), the word-count range passed to create_content reads              *)
(* "<low>-<high>" with low = w - 200 and high = w + 200 written in decimal   *)
(* digits, and 0 < low < high: a call made by a frontend never carries a     *)
(* malformed range.                                                          *)
C18_FormRangeWellFormed ==
    FormCall =>
        /\ ui.word_count \in SliderValues
        /\ LET wc == params.word_count
           IN  \E k \in 2..(Len(wc) - 1) :
                  LET low  == SubSeq(wc, 1, k - 1)
                      high == SubSeq(wc, k + 1, Len(wc))
                  IN  /\ wc[k] = "-"
                      /\ \A i \in 1..Len(wc) : i # k => IsDigit(wc[i])
                      /\ low[1] # "0" /\ high[1] # "0"
                      /\ StrToInt(low) = ui.word_count - 200
                      /\ StrToInt(high) = ui.word_count + 200
                      /\ 0 < StrToInt(low)
                      /\ StrToInt(low) < StrToInt(high)

\* the smallest slider value was submitted and its call returned
C18_Witness ==
    /\ FormCall
    /\ pc = "returned"
    /\ ui.word_count = SliderMin
    /\ params.word_count = <<"1", "0", "0", "-", "5", "0", "0">>

-----------------------------------------------------------------------------
(* Two calls of create_content running at the same time *)

mainVars == <<keys, description, pc, params, context, snippets, log, result, ui,
              shown, memo>>

Runs == {1, 2}

\* parameters the concurrent calls are started with
ConcParams ==
    { ProbeParams,
      [ProbeParams EXCEPT !.audience = <<"developers">>, !.content_type = <<"article">>],
      [ProbeParams EXCEPT !.topic = <<"{", "x", "}">>] }

\* a call that has not yet executed its first statement
NewRun(team, p) ==
    [team |-> team, pc |-> "start", params |-> p, tmp |-> <<>>, instr |-> <<>>,
     context |-> <<>>, result |-> NoResult]

\* both orchestrators are constructed; call 1 runs on the first, call 2 on the
\* first as well or on the second; the two calls have different parameters
InitConc ==
    /\ keys = [google |-> TRUE, serper |-> TRUE]
    /\ description = WritingTemplate
    /\ pc = "idle"
    /\ params = NoParams
    /\ context = <<>>
    /\ snippets = <<>>
    /\ log = <<>>
    /\ result = NoResult
    /\ ui = NoUi
    /\ shown = <<>>
    /\ memo = NoMemo
    /\ \E team \in Runs : \E p1 \in ConcParams : \E p2 \in ConcParams \ {p1} :
          conc = [desc |-> <<WritingTemplate, WritingTemplate>>,
                  run  |-> <<NewRun(1, p1), NewRun(team, p2)>>]

\* the right-hand side of the assignment reads the description
ConcRead(r) ==
    /\ conc.run[r].pc = "start"
    /\ conc' = [conc EXCEPT !.run[r].pc = "read",
                            !.run[r].tmp = conc.desc[conc.run[r].team]]
    /\ UNCHANGED mainVars

\* format() of the text read, and the store of its value into the description;
\* a KeyError or ValueError leaves the call before the try block
ConcWrite(r) ==
    /\ conc.run[r].pc = "read"
    /\ LET me == conc.run[r]
           f  == Format(me.tmp, me.params)
       IN  IF f.ok
             THEN conc' = [conc EXCEPT !.desc[me.team] = f.out,
                                       !.run[r].pc = "kickoff"]
             ELSE conc' = [conc EXCEPT !.run[r].pc = "raised"]
    /\ UNCHANGED mainVars

\* one stage of kickoff: the first stage takes the writing task's description
\* as it is now; a stage that fails ends the call with the simulation result,
\* the last stage that succeeds ends it with the success result
ConcStage(r) ==
    /\ conc.run[r].pc = "kickoff"
    /\ LET me    == conc.run[r]
           p     == me.params
           instr == IF me.context = <<>> THEN conc.desc[me.team] ELSE me.instr
       IN  \E ok \in BOOLEAN : \E text \in Texts :
              IF ~ok
                THEN conc' = [conc EXCEPT
                        !.run[r].instr = instr,
                        !.run[r].pc = "returned",
                        !.run[r].result = SimulationResult(p.topic, p.audience,
                                              p.content_type, p.word_count)]
                ELSE IF Len(me.context) + 1 = NumStages
                  THEN conc' = [conc EXCEPT
                        !.run[r].instr = instr,
                        !.run[r].context = Append(me.context, text),
                        !.run[r].pc = "returned",
                        !.run[r].result = SuccessResult(p.topic, p.audience,
                                              p.content_type, p.word_count, text)]
                  ELSE conc' = [conc EXCEPT
                        !.run[r].instr = instr,
                        !.run[r].context = Append(me.context, text)]
    /\ UNCHANGED mainVars

NextConc ==
    \E r \in Runs :
        \/ ConcRead(r)
        \/ ConcWrite(r)
        \/ ConcStage(r)

SpecConc == InitConc /\ [][NextConc]_vars

\* the two calls use the same orchestrator
SharedTeam == conc.run[1].team = conc.run[2].team

(* C15: two calls of create_content running at the same time with different  *)
(* parameters do not affect each other: neither is ended by an exception,    *)
(* each one's stage-1 instructions are the template rendered with its own    *)
(* parameters, and the result each returns carries its own parameters.       *)
C15_RunsIndependent ==
    \A r \in Runs :
        LET me == conc.run[r]
        IN  /\ me.pc # "raised"
            /\ me.instr # <<>> => me.instr = Format(WritingTemplate, me.params).out
            /\ me.pc = "returned" =>
                  \A f \in ParamFields : me.result[f] = me.params[f]

\* with one orchestrator for each call, as both frontends construct them
C15_SeparateTeams == ~SharedTeam => C15_RunsIndependent

====
